---- MODULE Spec2Model ----
(***************************************************************************)
(* A model of the structured logger of tools/logging/python/logger.py:    *)
(* the event id generator, the binding hierarchy of StructuredLogger, the *)
(* entry assembly of _prepare_entry, the emission of _emit, the pretty    *)
(* renderer _format_pretty, the error serializer serialize_error, and     *)
(* get_logger with the wrapper of LoggerUtils.with_span.  The entry       *)
(* assembler of the Node.js logger is modelled beside it, for comparison. *)
(*                                                                        *)
(* Python values are tagged records, so that None, strings, numbers and   *)
(* dicts can live in one dict and be compared.  A dict is a function     *)
(* whose domain is a set of key strings.  Key order of dicts is not       *)
(* modelled.                                                              *)
(***************************************************************************)
EXTENDS Integers, Sequences, FiniteSets, TLC

VARIABLES
    environ,           \* the process environment and whether stdout is a terminal
    config,            \* the module-level config dict
    use_pretty,        \* the module-level use_pretty flag
    heap,              \* the dict objects that serve as binding maps
    loggers,           \* the StructuredLogger objects created so far
    event_id_counter,  \* _event_id_counter
    clock,             \* the wall clock, in epoch milliseconds
    lastLine,          \* the line the most recent operation wrote, if any (calls taken as one step)
    nLines,            \* the number of lines written so far (calls taken as one step)
    derived,           \* how the newest logger was derived: receiver and arguments
    last,              \* the most recent operation if it was a log call: arguments, outcome
    lock,              \* the holder of _event_id_lock, 0 when free
    pc,                \* per thread: its position in generate_event_id
    tmp,               \* per thread: the counter value it loaded
    calls,             \* per thread: the calls of generate_event_id it made
    returned,          \* the counters returned, in the order of the returns
    errIn,             \* the error handed to serialize_error
    serialized,        \* the result of serialize_error(errIn)
    stream,            \* the output stream: the pieces written to it, in order
    flushed,           \* the number of pieces of the stream that were flushed
    epc,               \* per thread: its position in a log call
    todo,              \* per thread: the stream calls its log call has still to make
    ecall,             \* per thread: its current or most recent log call
    current_logger,    \* per thread: the value of _current_logger in its context, 0 for None
    spans,             \* per thread: the calls of with_span wrappers that are running
    exited             \* per thread: the most recent exit of a wrapper, if its last step

loggerVars == <<environ, config, use_pretty, heap, loggers, derived, event_id_counter, clock,
                lastLine, nLines, last>>
idVars == <<lock, pc, tmp, calls, returned>>
errVars == <<errIn, serialized>>
streamVars == <<stream, flushed, epc, todo, ecall>>
spanVars == <<current_logger, spans, exited>>
vars == <<loggerVars, idVars, errVars, streamVars, spanVars>>

----------------------------------------------------------------------------
(* Bounds of the model *)

MaxLoggers == 2     \* loggers alive at once in Spec, the root included
MaxChain == 3       \* loggers alive at once in SpecBind, the root included
MaxLines == 2       \* lines written to the stream
MaxBindLines == 1   \* lines written to the stream in SpecBind
MaxClock == 1       \* the clock runs from 0 to MaxClock
MaxIdCalls == 2     \* calls of generate_event_id per thread
NumThreads == 2     \* threads calling generate_event_id, and threads logging
MaxStreamCalls == 2 \* log calls made by the logging threads, all together

----------------------------------------------------------------------------
(* Python values *)

None == [k |-> "none"]
S(s) == [k |-> "str", s |-> s]
N(n) == [k |-> "int", n |-> n]
B(b) == [k |-> "bool", b |-> b]
D(d) == [k |-> "dict", d |-> d]
EmptyDict == <<>>

\* An object of a type json.dumps has no encoding for, such as object()
Obj == [k |-> "object"]

\* isinstance(v, str): the strings of the model
IsStr(v) == v.k \in {"str", "chars", "stack", "evt", "ts"}

\* bool(v)
Truthy(v) ==
    CASE v.k = "none" -> FALSE
      [] v.k = "str" -> v.s # ""
      [] v.k = "int" -> v.n # 0
      [] v.k = "bool" -> v.b
      [] v.k = "dict" -> v.d # EmptyDict
      [] v.k = "chars" -> v.c # <<>>
      [] OTHER -> TRUE

\* d.get(key, default)
Get(d, key, default) == IF key \in DOMAIN d THEN d[key] ELSE default

\* d[key] = value
Put(d, key, value) ==
    [x \in DOMAIN d \cup {key} |-> IF x = key THEN value ELSE d[x]]

\* d.pop(key, None), the dict that remains
Del(d, key) == [x \in DOMAIN d \ {key} |-> d[x]]

\* d.update(e)
Update(d, e) ==
    [x \in DOMAIN d \cup DOMAIN e |-> IF x \in DOMAIN e THEN e[x] ELSE d[x]]

\* a or b
Or(a, b) == IF Truthy(a) THEN a ELSE b

----------------------------------------------------------------------------
(* Configuration helpers *)

LEVEL_WEIGHTS == [debug |-> 10, info |-> 20, warn |-> 30, warning |-> 30, error |-> 40]

OPTIONAL_ROOT_FIELDS ==
    {"request_id", "user_hash", "source", "duration_ms", "status_code", "tags",
     "trace_id", "span_id"}

DefaultThreshold == 20
UnknownWeight == 0

\* LEVEL_WEIGHTS.get, had a name that is not in the table the weight of error
LevelWeightUnknownHeaviest(level, default) ==
    IF level \in DOMAIN LEVEL_WEIGHTS THEN LEVEL_WEIGHTS[level] ELSE 40

\* LEVEL_WEIGHTS.get(level, default)
LevelWeight(level, default) ==
    IF level \in DOMAIN LEVEL_WEIGHTS THEN LEVEL_WEIGHTS[level] ELSE default

\* str.lower() on the level names the model passes
Lower(s) ==
    CASE s = "INFO" -> "info"
      [] s = "Warn" -> "warn"
      [] s = "ERROR" -> "error"
      [] s = "STDOUT" -> "stdout"
      [] s = "TRUE" -> "true"
      [] OTHER -> s

----------------------------------------------------------------------------
(* The process environment and the module-level configuration *)

Unset == "<unset>"

\* os.getenv, had it no default
GetEnvNoDefault(env, name, default) == env[name]

\* os.getenv(name, default)
GetEnv(env, name, default) == IF env[name] = Unset THEN default ELSE env[name]

\* pyproject.toml in the working directory: absent (Unset), a file that cannot be
\* read, a file whose version line has no "=", or the version its version line gives
Unreadable == "<unreadable>"
Malformed == "<malformed>"

\* get_version(): the version of pyproject.toml; "0.0.0" when there is no file
\* and when reading or splitting raises, which the try catches
GetVersion(pyproject) ==
    IF pyproject \in {Unset, Unreadable, Malformed} THEN S("0.0.0") ELSE S(pyproject)

\* The config dict built at import time
ResolveConfig(env) ==
    [service |-> S(GetEnv(env, "HOMELAB_SERVICE", "unknown-service")),
     environment |-> S(GetEnv(env, "HOMELAB_ENVIRONMENT", "development")),
     log_target |-> Lower(GetEnv(env, "HOMELAB_LOG_TARGET", "stdout")),
     log_level |-> Lower(GetEnv(env, "HOMELAB_LOG_LEVEL", "info")),
     force_pretty |-> Lower(GetEnv(env, "HOMELAB_FORCE_PRETTY", "")) = "true",
     version |-> GetVersion(env["pyproject"])]

\* use_pretty, had it not looked at the log target
UsePrettyAnyTarget(cfg, isatty) == cfg.force_pretty \/ isatty

\* use_pretty
UsePretty(cfg, isatty) == cfg.log_target = "stdout" /\ (cfg.force_pretty \/ isatty)

\* The environments the logger model starts from
Envs ==
    [HOMELAB_SERVICE : {"homelab"},
     HOMELAB_ENVIRONMENT : {Unset},
     HOMELAB_LOG_TARGET : {Unset},
     HOMELAB_LOG_LEVEL : {Unset, "debug", "error"},
     HOMELAB_FORCE_PRETTY : {Unset, "true"},
     pyproject : {Unset}]
    \ [HOMELAB_SERVICE : {"homelab"},
       HOMELAB_ENVIRONMENT : {Unset},
       HOMELAB_LOG_TARGET : {Unset},
       HOMELAB_LOG_LEVEL : {"debug", "error"},
       HOMELAB_FORCE_PRETTY : {"true"},
       pyproject : {Unset}]

\* The environments that differ in what decides the rendering mode
ModeEnvs ==
    [HOMELAB_SERVICE : {Unset},
     HOMELAB_ENVIRONMENT : {Unset},
     HOMELAB_LOG_TARGET : {Unset, "STDOUT", "vector"},
     HOMELAB_LOG_LEVEL : {Unset},
     HOMELAB_FORCE_PRETTY : {Unset, "TRUE", "1"},
     pyproject : {Unset}]

\* The environments that differ in the fields that have defaults
DefaultEnvs ==
    [HOMELAB_SERVICE : {Unset, "homelab"},
     HOMELAB_ENVIRONMENT : {Unset, "production"},
     HOMELAB_LOG_TARGET : {Unset},
     HOMELAB_LOG_LEVEL : {Unset, "verbose", "ERROR", "warning"},
     HOMELAB_FORCE_PRETTY : {Unset},
     pyproject : {Unset}]
    \cup [HOMELAB_SERVICE : {Unset},
          HOMELAB_ENVIRONMENT : {Unset},
          HOMELAB_LOG_TARGET : {Unset},
          HOMELAB_LOG_LEVEL : {Unset},
          HOMELAB_FORCE_PRETTY : {Unset},
          pyproject : {"1.2.3", Unreadable, Malformed}]

----------------------------------------------------------------------------
(* Event ids *)

\* evt_<epoch_ms>_<counter>
EventId(ms, counter) == [k |-> "evt", ms |-> ms, n |-> counter]

\* generate_event_id, had it returned the counter without incrementing it
NextCounterSame(c) == c

\* _event_id_counter += 1
NextCounter(c) == c + 1

\* The clock readings a call can see: time does not run backwards
ClockReadings == {c \in {clock, clock + 1} : c <= MaxClock}

----------------------------------------------------------------------------
(* StructuredLogger *)

Root == 1

NoCall == [op |-> "none"]
NoLine == [k |-> "nothing"]

\* An operation that is no log call writes nothing
NothingLogged == last' = NoCall /\ lastLine' = NoLine

\* StructuredLogger.__init__
NewLogger(ref, pretty, colorize) ==
    [bindings |-> ref,
     pretty |-> pretty,
     colorize |-> colorize,
     level_threshold |-> LevelWeight(config.log_level, DefaultThreshold)]

\* self.bindings of a logger
Bindings(lg) == heap[loggers[lg].bindings]

\* child, had it removed the keys passed as None instead of skipping them
MergedUnsetting(parent, bindings) ==
    LET unset == {y \in DOMAIN bindings : bindings[y] = None}
        set == DOMAIN bindings \ unset
    IN [x \in (DOMAIN parent \ unset) \cup set |->
           IF x \in set THEN bindings[x] ELSE parent[x]]

\* merged, as child computes it from self.bindings and its keyword arguments
Merged(parent, bindings) ==
    [x \in DOMAIN parent \cup {y \in DOMAIN bindings : bindings[y] # None} |->
        IF x \in DOMAIN bindings /\ bindings[x] # None THEN bindings[x] ELSE parent[x]]

\* child, had it written into self.bindings instead of a copy
MergedRefAliased(parentRef, freshRef) == parentRef

\* The dict object that holds merged: {**self.bindings} is a new object
MergedRef(parentRef, freshRef) == freshRef

\* child(**bindings), called through the method op
DeriveLogger(lg, op, bindings) ==
    /\ LET fresh == Len(heap) + 1
           ref == MergedRef(loggers[lg].bindings, fresh)
       IN /\ heap' = [Append(heap, EmptyDict) EXCEPT
                         ![ref] = Merged(heap[loggers[lg].bindings], bindings)]
          /\ loggers' = Append(loggers,
                 NewLogger(ref, loggers[lg].pretty, loggers[lg].colorize))
    /\ derived' = [op |-> op, parent |-> lg, child |-> Len(loggers) + 1, via |-> bindings]
    /\ NothingLogged
    /\ UNCHANGED <<environ, config, use_pretty, event_id_counter, clock, nLines>>
    /\ UNCHANGED <<idVars, errVars, streamVars>>

\* A logger derived by a caller that is no with_span wrapper
ChildOf(lg, op, bindings) == DeriveLogger(lg, op, bindings) /\ UNCHANGED spanVars

\* The keyword arguments the model passes to child and bind
BindSamples ==
    { [trace_id |-> S("trace-12345678")],
      [trace_id |-> None, service |-> None],
      [user |-> S("alice"), duration_ms |-> N(7)] }

StrOrNone(names) == {None} \cup {S(n) : n \in names}

\* child(**bindings)
Child(lg, bindings) == ChildOf(lg, "child", bindings)

\* bind(**bindings)
Bind(lg, bindings) == ChildOf(lg, "bind", bindings)

\* with_category(category)
WithCategory(lg, category) == ChildOf(lg, "with_category", [category |-> category])

\* bind_trace(trace_id, span_id)
BindTrace(lg, trace_id, span_id) ==
    ChildOf(lg, "bind_trace", [trace_id |-> trace_id, span_id |-> span_id])

\* with_request(request_id, user_hash)
WithRequest(lg, request_id, user_hash) ==
    ChildOf(lg, "with_request", [request_id |-> request_id, user_hash |-> user_hash])

\* create_logger(service, environment, version, category)
CreateLogger(lg, service, environment, version, category) ==
    ChildOf(lg, "create_logger",
        [service |-> Or(service, config.service),
         environment |-> Or(environment, config.environment),
         version |-> Or(version, config.version),
         category |-> Or(category, S("app"))])

\* StructuredLogger(config, bindings, pretty=pretty): a logger constructed directly
Construct(bindings, pretty) ==
    /\ heap' = Append(heap, IF Truthy(bindings) THEN bindings.d ELSE EmptyDict)
    /\ loggers' = Append(loggers, NewLogger(Len(heap) + 1, pretty, FALSE))
    /\ derived' = [op |-> "init", parent |-> 0, child |-> Len(loggers) + 1, via |-> bindings]
    /\ NothingLogged
    /\ UNCHANGED <<environ, config, use_pretty, event_id_counter, clock, nLines>>
    /\ UNCHANGED <<idVars, errVars, streamVars, spanVars>>

----------------------------------------------------------------------------
(* Entry assembly *)

REQUIRED_FIELDS ==
    {"timestamp", "level", "message", "service", "environment", "version",
     "category", "event_id"}

\* datetime.now(timezone.utc).isoformat()
Timestamp(ms) == [k |-> "ts", ms |-> ms]

\* The required fields of the entry, as the dict literal of _prepare_entry sets them
RequiredPart(bindings, level, message, extra, ts, generated) ==
    [timestamp |-> Timestamp(ts),
     level |-> S(level),
     message |-> Or(message, S("")),
     service |-> Get(bindings, "service", config.service),
     environment |-> Get(bindings, "environment", config.environment),
     version |-> Get(bindings, "version", config.version),
     category |-> Get(bindings, "category", S("app")),
     event_id |-> Get(extra, "event_id", generated)]

\* The first loop over OPTIONAL_ROOT_FIELDS: the bound values that are not None
WithBound(entry, bindings) ==
    LET bound == {f \in OPTIONAL_ROOT_FIELDS : Get(bindings, f, None) # None}
    IN [x \in DOMAIN entry \cup bound |-> IF x \in bound THEN bindings[x] ELSE entry[x]]

\* _prepare_entry, had it left the call's optional root fields out of the root
WithCallFieldsIgnored(entry, extra) == entry

\* _prepare_entry, had a call field passed as None left the bound value in place
WithCallFieldsShadowing(entry, extra) ==
    LET set == {f \in OPTIONAL_ROOT_FIELDS \cap DOMAIN extra : extra[f] # None}
    IN [x \in DOMAIN entry \cup set |-> IF x \in set THEN extra[x] ELSE entry[x]]

\* The second loop: a call field overrides the bound value, None removes it
WithCallFields(entry, extra) ==
    LET given == OPTIONAL_ROOT_FIELDS \cap DOMAIN extra
        set == {f \in given : extra[f] # None}
        unset == given \ set
    IN [x \in (DOMAIN entry \ unset) \cup set |-> IF x \in set THEN extra[x] ELSE entry[x]]

\* The context: the context argument if it is a dict, then the remaining call fields
ContextOf(context_arg, extra) ==
    LET context == IF context_arg.k = "dict" THEN context_arg.d ELSE EmptyDict
        rest == {x \in DOMAIN extra \ OPTIONAL_ROOT_FIELDS : extra[x] # None}
    IN [x \in DOMAIN context \cup rest |-> IF x \in rest THEN extra[x] ELSE context[x]]

\* The last loop: every root key whose value is None is dropped
DropNone(entry) == [x \in {y \in DOMAIN entry : entry[y] # None} |-> entry[x]]

\* _prepare_entry(level, message, extra); generated is what generate_event_id() returned
PrepareEntry(bindings, level, message, extra, ts, generated) ==
    LET context_arg == Get(extra, "context", None)
        extra1 == Del(extra, "context")
        entry0 == RequiredPart(bindings, level, message, extra1, ts, generated)
        extra2 == Del(extra1, "event_id")
        entry1 == WithBound(entry0, bindings)
        entry2 == WithCallFields(entry1, extra2)
        context == ContextOf(context_arg, extra2)
    IN DropNone(Put(entry2, "context", D(context)))

----------------------------------------------------------------------------
(* The Node.js implementation, tools/logging/node/logger.js: its entry *)
(* assembler, step by step as section 4.4 of the specification gives it *)

\* The message of an entry is a string: a value that is none is coerced to a
\* string representation of it, an absent message is the empty string
NodeMessage(message) ==
    IF message = None THEN S("")
    ELSE IF IsStr(message) THEN message
    ELSE [k |-> "repr", of |-> message]

\* Step 1: the call goes on when the weight of its level reaches the threshold
NodePasses(level, threshold) == LevelWeight(level, UnknownWeight) >= threshold

\* Step 2: the eight required fields, from the configuration and the bindings
NodeRequired(bindings, level, message, ts, generated) ==
    [timestamp |-> Timestamp(ts),
     level |-> S(level),
     message |-> NodeMessage(message),
     service |-> Get(bindings, "service", config.service),
     environment |-> Get(bindings, "environment", config.environment),
     version |-> Get(bindings, "version", config.version),
     category |-> Get(bindings, "category", S("app")),
     event_id |-> generated]

\* Step 3: each optional root field has the bound value, or the value of the
\* call when the call specifies the key
NodeOptional(bindings, callFields) ==
    [f \in OPTIONAL_ROOT_FIELDS \cap (DOMAIN bindings \cup DOMAIN callFields) |->
        IF f \in DOMAIN callFields THEN callFields[f] ELSE bindings[f]]

\* Step 4: the nested context mapping, overridden by the remaining call fields
NodeContext(callFields) ==
    LET nested == IF "context" \in DOMAIN callFields /\ callFields["context"].k = "dict"
                  THEN callFields["context"].d ELSE EmptyDict
        remaining == DOMAIN callFields
                        \ (OPTIONAL_ROOT_FIELDS \cup REQUIRED_FIELDS \cup {"context"})
    IN [x \in DOMAIN nested \cup remaining |->
           IF x \in remaining THEN callFields[x] ELSE nested[x]]

\* Step 5: no key of the entry, at the root or in the context, holds null
NodeDropNull(d) == [x \in {y \in DOMAIN d : d[y] # None} |-> d[x]]

\* The entry the Node.js logger assembles for a call that passes the filter
NodeEntry(bindings, level, message, callFields, ts, generated) ==
    LET root == Update(NodeRequired(bindings, level, message, ts, generated),
                       NodeOptional(bindings, callFields))
        context == NodeDropNull(NodeContext(callFields))
    IN Put(NodeDropNull(root), "context", D(context))

----------------------------------------------------------------------------
(* Error serialization *)

(* Strings that are searched for patterns are sequences of characters. *)
Cs(c) == [k |-> "chars", c |-> c]

UpperToLower ==
    [A |-> "a", B |-> "b", C |-> "c", D |-> "d", E |-> "e", F |-> "f", G |-> "g", H |-> "h", I |-> "i", J |-> "j", K |-> "k", L |-> "l", M |-> "m",
     N |-> "n", O |-> "o", P |-> "p", Q |-> "q", R |-> "r", S |-> "s", T |-> "t", U |-> "u", V |-> "v", W |-> "w", X |-> "x", Y |-> "y", Z |-> "z"]

\* re.IGNORECASE: the characters of a string, lower-cased
LowerChars(c) ==
    [i \in 1..Len(c) |-> IF c[i] \in DOMAIN UpperToLower THEN UpperToLower[c[i]] ELSE c[i]]

\* A literal pattern occurs somewhere in a string
Contains(c, pattern) ==
    \E i \in 1..(Len(c) - Len(pattern) + 1) : SubSeq(c, i, i + Len(pattern) - 1) = pattern

\* serialize_error, had its allowlist one more name
SafeAttributesWide == {"args", "code", "errno", "message", "filename", "lineno", "detail"}

SAFE_ATTRIBUTES == {"args", "code", "errno", "message", "filename", "lineno"}

SENSITIVE_PATTERNS ==
    { <<"p", "a", "s", "s", "w", "o", "r", "d">>,
      <<"p", "a", "s", "s", "w", "d">>,
      <<"p", "w", "d">>,
      <<"t", "o", "k", "e", "n">>,
      <<"k", "e", "y">>,
      <<"s", "e", "c", "r", "e", "t">>,
      <<"c", "r", "e", "d", "e", "n", "t", "i", "a", "l">>,
      <<"a", "u", "t", "h">>,
      <<"s", "s", "n">>,
      <<"s", "o", "c", "i", "a", "l", "_", "s", "e", "c", "u", "r", "i", "t", "y">>,
      <<"c", "r", "e", "d", "i", "t", "_", "c", "a", "r", "d">>,
      <<"c", "c", "_", "n", "u", "m", "b", "e", "r">>,
      <<"a", "c", "c", "o", "u", "n", "t", "_", "n", "u", "m", "b", "e", "r">>,
      <<"a", "c", "c", "o", "u", "n", "t", "_", "n", "u", "m">> }

\* re.search(pattern, value, re.IGNORECASE) for some pattern of the list
MatchesSensitive(c) == \E pattern \in SENSITIVE_PATTERNS : Contains(LowerChars(c), pattern)

REDACTED == S("[REDACTED]")

\* _redact_sensitive_data, had it searched without re.IGNORECASE
RedactCaseSensitive(value) ==
    IF value.k = "chars" /\ \E pattern \in SENSITIVE_PATTERNS : Contains(value.c, pattern)
    THEN REDACTED ELSE value

\* _redact_sensitive_data(value)
RedactSensitiveData(value) ==
    IF value.k = "chars" /\ MatchesSensitive(value.c) THEN REDACTED ELSE value

\* The characters of the attribute names the model uses
NameChars ==
    [code |-> <<"c", "o", "d", "e">>,
     message |-> <<"m", "e", "s", "s", "a", "g", "e">>,
     password |-> <<"p", "a", "s", "s", "w", "o", "r", "d">>,
     api_key |-> <<"a", "p", "i", "_", "k", "e", "y">>,
     _token |-> <<"_", "t", "o", "k", "e", "n">>,
     detail |-> <<"d", "e", "t", "a", "i", "l">>]

\* key.startswith("_")
IsPrivate(key) == NameChars[key][1] = "_"

\* serialize_error, had it copied every public attribute
CopiedAttributesUnlisted(attrs) == {key \in DOMAIN attrs : ~IsPrivate(key)}

\* The attributes of error.__dict__ that are copied
CopiedAttributes(attrs) == {key \in DOMAIN attrs : ~IsPrivate(key) /\ key \in SAFE_ATTRIBUTES}

\* str(error) or fallback
StrOr(error, fallback) == IF error.msg # <<>> THEN Cs(error.msg) ELSE fallback

\* "".join(traceback.format_exception(...)): never empty, it quotes str(error)
Stack(error) == [k |-> "stack", name |-> error.name, msg |-> error.msg]

\* serialize_error(error)
SerializeError(error) ==
    IF error.falsy THEN None
    ELSE LET base == [name |-> S(error.name),
                      message |-> StrOr(error, Cs(<<"E", "r", "r", "o", "r">>))]
             copied == CopiedAttributes(error.attrs)
             withAttrs == [x \in DOMAIN base \cup copied |->
                              IF x \in copied THEN RedactSensitiveData(error.attrs[x])
                              ELSE base[x]]
         IN D(Put(withAttrs, "stack", Stack(error)))

\* bool(error) raises: the test "if not error" of serialize_error
BoolRaises(error) == error.fails = "bool"

\* str(error) raises
StrRaises(error) == error.fails = "str"

\* serialize_error(error) raises: it guards neither bool(error) nor str(error),
\* and str(error) is reached only when the error is truthy
SerializeRaises(error) == BoolRaises(error) \/ (~error.falsy /\ StrRaises(error))

\* The outcome of a call that raised
Raised == [k |-> "raised"]

\* The values the model stores in error attributes
AttrValues == { Cs(<<"E", "4", "2">>), Cs(<<"m", "y", " ", "T", "o", "k", "e", "n">>), N(5) }

AttrNames == {"code", "message", "password", "api_key", "_token", "detail"}

\* Every assignment of values to a subset of the attribute names
AttrDicts == UNION { [names -> AttrValues] : names \in SUBSET AttrNames }

\* The errors handed to serialize_error
Errors ==
    [name : {"ValueError"},
     msg : { <<>>, <<"b", "o", "o", "m">>, <<"b", "a", "d", " ", "p", "a", "s", "s", "w", "d">> },
     attrs : AttrDicts,
     falsy : BOOLEAN,
     fails : {"none"}]
    \cup [name : {"ValueError"},
          msg : { <<"b", "o", "o", "m">> },
          attrs : { EmptyDict, [code |-> Cs(<<"E", "4", "2">>)] },
          falsy : BOOLEAN,
          fails : {"bool", "str"}]

NotSerialized == [k |-> "pending"]

\* serialize_error applied to the error drawn
Serialize ==
    /\ serialized = NotSerialized
    /\ serialized' = IF SerializeRaises(errIn) THEN Raised ELSE SerializeError(errIn)
    /\ UNCHANGED <<errIn, loggerVars, idVars, streamVars, spanVars>>

----------------------------------------------------------------------------
(* Core logging *)

\* The record of a call that returned without writing
Filtered(op, lg, level, message, kw, inner) ==
    [op |-> op, lg |-> lg, level |-> level, message |-> message, kw |-> kw,
     inner |-> inner, emitted |-> FALSE, raised |-> FALSE,
     counter_before |-> event_id_counter, lines_before |-> nLines, generated |-> None]

\* The record of a call that wrote a line
Emitted(op, lg, level, message, kw, inner, generated) ==
    [op |-> op, lg |-> lg, level |-> level, message |-> message, kw |-> kw,
     inner |-> inner, emitted |-> TRUE, raised |-> FALSE,
     counter_before |-> event_id_counter, lines_before |-> nLines, generated |-> generated]

\* log, had it no level test
BelowThresholdNever(level, threshold) == FALSE

\* The test of log: the level's weight is below the logger's threshold
BelowThreshold(level, threshold) == LevelWeight(level, UnknownWeight) < threshold

\* Python binds level and message to the parameters of log: a keyword argument
\* of either name is a TypeError, raised before the body of log runs
ArgsRaise(kwargs) == {"level", "message"} \cap DOMAIN kwargs # {}

\* json.dumps(v) succeeds: v holds no object without a JSON encoding
RECURSIVE JsonSerializable(_)
JsonSerializable(v) ==
    CASE v.k = "object" -> FALSE
      [] v.k = "dict" -> \A x \in DOMAIN v.d : JsonSerializable(v.d[x])
      [] OTHER -> TRUE

\* " ".join(parts) of _format_pretty raises: a part that is truthy and no string
JoinRaises(entry) ==
    \E part \in {"message", "service", "category"} \cap DOMAIN entry :
        Truthy(entry[part]) /\ ~IsStr(entry[part])

\* _emit raises before it writes: the entry cannot be rendered
EmitRaises(pretty, entry) ==
    IF pretty
    THEN JoinRaises(entry)
            \/ (Truthy(entry["context"]) /\ ~JsonSerializable(entry["context"]))
    ELSE ~JsonSerializable(D(entry))

\* _apply_color(text, code): the text, and the colour code it is wrapped in
ApplyColor(colorize, text, code) ==
    [text |-> text, color |-> IF ~colorize \/ code = "" THEN "" ELSE code]

\* _format_pretty, had it shown the whole trace id
TraceSegmentUncut(trace_id) == [k |-> "bracketed", id |-> trace_id, dots |-> "..."]

\* f"[{str(trace_id)[:8]}...]"
TraceSegment(trace_id) ==
    [k |-> "bracketed",
     id |-> IF trace_id.k = "chars"
            THEN Cs(SubSeq(trace_id.c, 1, IF Len(trace_id.c) < 8 THEN Len(trace_id.c) ELSE 8))
            ELSE [k |-> "first8", of |-> trace_id],
     dots |-> "..."]

\* The parts list of _format_pretty, each part with the segment it stands for
PrettyParts(entry, colorize) ==
    LET timestamp == Get(entry, "timestamp", S(""))
        level == Or(Get(entry, "level", None), S("info"))
        service == Get(entry, "service", S(""))
        category == Get(entry, "category", S(""))
        trace_id == Get(entry, "trace_id", None)
        Part(seg, text, code) == << [seg |-> seg] @@ ApplyColor(colorize, text, code) >>
    IN (IF Truthy(timestamp)
        THEN Part("time", [k |-> "HH:MM:SS", of |-> timestamp], "dim") ELSE <<>>)
       \o Part("level", [k |-> "upper", of |-> level],
               IF level \in {S("debug"), S("info"), S("warn"), S("error")}
               THEN level.s ELSE "")
       \o (IF Truthy(service) THEN Part("service", service, "bold") ELSE <<>>)
       \o (IF Truthy(category) /\ category # S("app")
           THEN Part("category", category, "") ELSE <<>>)
       \o (IF Truthy(trace_id) THEN Part("trace", TraceSegment(trace_id), "") ELSE <<>>)
       \o (IF "duration_ms" \in DOMAIN entry
           THEN Part("duration", [k |-> "ms", n |-> entry["duration_ms"]], "") ELSE <<>>)
       \o Part("dash", S("-"), "")
       \o Part("message", Get(entry, "message", S("")), "")

\* _format_pretty(entry): the header line, the parts that are not empty joined by
\* spaces, and after a newline the dump of the context when there is one
FormatPretty(entry, colorize) ==
    LET context == Or(Get(entry, "context", None), D(EmptyDict))
    IN [line |-> SelectSeq(PrettyParts(entry, colorize), LAMBDA part : Truthy(part.text)),
        dump |-> IF Truthy(context) THEN ApplyColor(colorize, context, "dim") ELSE None]

\* The output of _emit: _format_pretty(entry), or the compact json.dumps(entry)
Output(pretty, colorize, entry) ==
    IF pretty THEN FormatPretty(entry, colorize) ELSE [json |-> entry]

\* _emit(entry): one line on the stream, in the logger's rendering mode
Emit(lg, entry) ==
    /\ lastLine' = [pretty |-> loggers[lg].pretty, colorize |-> loggers[lg].colorize,
                    entry |-> entry,
                    output |-> Output(loggers[lg].pretty, loggers[lg].colorize, entry)]
    /\ nLines' = nLines + 1

\* log(level, message, **kwargs) on logger lg, reached through the method op
\* that was called with the keyword arguments kw
LogVia(op, kw, lg, level, message, kwargs) ==
    LET lowered == Lower(level)
    IN IF ArgsRaise(kwargs)
       THEN /\ last' = [Filtered(op, lg, level, message, kw, kwargs) EXCEPT !.raised = TRUE]
            /\ lastLine' = NoLine
            /\ UNCHANGED <<event_id_counter, nLines>>
       ELSE IF BelowThreshold(lowered, loggers[lg].level_threshold)
       THEN /\ last' = Filtered(op, lg, level, message, kw, kwargs)
            /\ lastLine' = NoLine
            /\ UNCHANGED <<event_id_counter, nLines>>
       ELSE /\ nLines < MaxLines
            /\ event_id_counter < MaxLines    \* a call that raises in _emit uses an id
            /\ LET counter == NextCounter(event_id_counter)
                   generated == EventId(clock, counter)
                   entry == PrepareEntry(Bindings(lg), lowered, message, kwargs,
                                         clock, generated)
               IN /\ event_id_counter' = counter
                  /\ IF EmitRaises(loggers[lg].pretty, entry)
                     THEN /\ last' = [Emitted(op, lg, level, message, kw, kwargs, generated)
                                         EXCEPT !.emitted = FALSE, !.raised = TRUE]
                          /\ lastLine' = NoLine
                          /\ UNCHANGED nLines
                     ELSE /\ Emit(lg, entry)
                          /\ last' = Emitted(op, lg, level, message, kw, kwargs, generated)

LogFrame ==
    UNCHANGED <<environ, config, use_pretty, heap, loggers, derived, clock, idVars, errVars,
                streamVars, spanVars>>

\* log(level, message, **kwargs)
Log(lg, level, message, kwargs) ==
    LogVia("log", kwargs, lg, level, message, kwargs) /\ LogFrame

\* debug(message, **kwargs)
Debug(lg, message, kwargs) ==
    LogVia("debug", kwargs, lg, "debug", message, kwargs) /\ LogFrame

\* info(message, **kwargs)
Info(lg, message, kwargs) ==
    LogVia("info", kwargs, lg, "info", message, kwargs) /\ LogFrame

\* warn(message, **kwargs)
Warn(lg, message, kwargs) ==
    LogVia("warn", kwargs, lg, "warn", message, kwargs) /\ LogFrame

\* error(message, **kwargs)
Error(lg, message, kwargs) ==
    LogVia("error", kwargs, lg, "error", message, kwargs) /\ LogFrame

----------------------------------------------------------------------------
(* Convenience helpers *)

\* log_request(method, url, request_id, user_agent, **kwargs)
LogRequest(lg, method, url, request_id, user_agent, kwargs) ==
    LET context0 == [method |-> method, url |-> url]
        context1 == IF Truthy(user_agent) THEN Put(context0, "userAgent", user_agent)
                    ELSE context0
        context == Update(context1, kwargs)
        kw == [request_id |-> request_id, user_agent |-> user_agent, kwargs |-> kwargs]
    IN /\ LogVia("log_request", kw, lg, "info", S("HTTP Request"),
                 [request_id |-> request_id, context |-> D(context)])
       /\ LogFrame

\* log_response(method, url, status_code, duration_ms, request_id, **kwargs)
LogResponse(lg, method, url, status_code, duration_ms, request_id, kwargs) ==
    LET context == Update([method |-> method, url |-> url], kwargs)
        kw == [request_id |-> request_id, status_code |-> status_code,
               duration_ms |-> duration_ms, kwargs |-> kwargs]
    IN /\ LogVia("log_response", kw, lg, "info", S("HTTP Response"),
                 [request_id |-> request_id, status_code |-> status_code,
                  duration_ms |-> duration_ms, context |-> D(context)])
       /\ LogFrame

\* The context log_error builds from its keyword arguments and the error
ErrorContext(error, kwargs) ==
    LET given == Get(kwargs, "context", D(EmptyDict))
        context0 == IF Truthy(given) THEN given.d ELSE EmptyDict
        context1 == Update(context0, Del(kwargs, "context"))
        error_payload == SerializeError(error)
        context2 == IF Truthy(error_payload) THEN Put(context1, "err", error_payload)
                    ELSE context1
        context3 == IF "error_type" \in DOMAIN context2 THEN context2
                    ELSE Put(context2, "error_type", S(error.name))
    IN IF "error_message" \in DOMAIN context3 THEN context3
       ELSE Put(context3, "error_message", StrOr(error, S("Error occurred")))

\* dict(x) raises when x is a truthy value that is no mapping
ContextRaises(kwargs) ==
    LET given == Get(kwargs, "context", D(EmptyDict))
    IN Truthy(given) /\ given.k # "dict"

\* log_error raises on the error: serialize_error(error) raises, or one of the
\* calls str(error) that follow it
ErrorRaises(error) == SerializeRaises(error) \/ StrRaises(error)

\* log_error(error, **kwargs)
LogError(lg, error, kwargs) ==
    /\ IF ContextRaises(kwargs) \/ ErrorRaises(error)
       THEN /\ last' = [Filtered("log_error", lg, "error", None, [error |-> error, kwargs |-> kwargs],
                                 EmptyDict) EXCEPT !.raised = TRUE]
            /\ lastLine' = NoLine
            /\ UNCHANGED <<event_id_counter, nLines>>
       ELSE LogVia("log_error", [error |-> error, kwargs |-> kwargs], lg, "error",
                   StrOr(error, S("Error occurred")),
                   [context |-> D(ErrorContext(error, kwargs))])
    /\ LogFrame

----------------------------------------------------------------------------
(* generate_event_id, statement by statement, as concurrent threads run it *)

Threads == 1..NumThreads
Free == 0

\* generate_event_id, had it not taken the lock
CanAcquireUnlocked(holder) == TRUE

\* _event_id_lock can be taken: no thread holds it
CanAcquire(holder) == holder = Free

\* A thread calls generate_event_id
IdCall(t) ==
    /\ pc[t] = "idle"
    /\ calls[t] < MaxIdCalls
    /\ pc' = [pc EXCEPT ![t] = "acquire"]
    /\ calls' = [calls EXCEPT ![t] = @ + 1]
    /\ UNCHANGED <<lock, tmp, returned, loggerVars, errVars, streamVars, spanVars>>

\* with _event_id_lock: the thread enters when the lock can be taken
IdAcquire(t) ==
    /\ pc[t] = "acquire"
    /\ CanAcquire(lock)
    /\ lock' = t
    /\ pc' = [pc EXCEPT ![t] = "load"]
    /\ UNCHANGED <<tmp, calls, returned, loggerVars, errVars, streamVars, spanVars>>

\* _event_id_counter += 1: the load of the global
IdLoad(t) ==
    /\ pc[t] = "load"
    /\ tmp' = [tmp EXCEPT ![t] = event_id_counter]
    /\ pc' = [pc EXCEPT ![t] = "store"]
    /\ UNCHANGED <<lock, calls, returned, loggerVars, errVars, streamVars, spanVars>>

\* _event_id_counter += 1: the store of the incremented value
IdStore(t) ==
    /\ pc[t] = "store"
    /\ event_id_counter' = NextCounter(tmp[t])
    /\ pc' = [pc EXCEPT ![t] = "format"]
    /\ UNCHANGED <<environ, config, use_pretty, heap, loggers, derived, clock, lastLine, nLines,
                   last>>
    /\ UNCHANGED <<lock, tmp, calls, returned, errVars, streamVars, spanVars>>

\* return f"evt_{ms}_{_event_id_counter}": the id is formatted from the clock and
\* the global, the lock is released and the call returns
IdReturn(t) ==
    /\ pc[t] = "format"
    /\ \E ms \in ClockReadings :
         /\ clock' = ms
         /\ returned' = Append(returned, [thread |-> t, id |-> EventId(ms, event_id_counter)])
    /\ lock' = Free
    /\ pc' = [pc EXCEPT ![t] = "idle"]
    /\ UNCHANGED <<environ, config, use_pretty, heap, loggers, derived, event_id_counter,
                   lastLine, nLines, last>>
    /\ UNCHANGED <<tmp, calls, errVars, streamVars, spanVars>>

----------------------------------------------------------------------------
(* log and _emit, stream call by stream call, as concurrent threads run them *)

\* os.linesep
LineSep == [k |-> "linesep"]

\* _emit, had it written the terminator in a stream call of its own
EmitCallsSplit(output) ==
    << [call |-> "write", data |-> <<output>>],
       [call |-> "write", data |-> <<LineSep>>],
       [call |-> "flush", data |-> <<>>] >>

\* The stream calls of _emit: stream.write(output + os.linesep), then stream.flush()
EmitCalls(output) ==
    << [call |-> "write", data |-> <<output, LineSep>>],
       [call |-> "flush", data |-> <<>>] >>

\* log and _emit, had they caught the failure of a stream call
OnStreamFailureSuppress(call) == "continue"

\* A stream call fails: _emit and the log methods have no try, the exception
\* leaves the log method
OnStreamFailure(call) == "raise"

\* The log call of a thread that has made none
NotCalled ==
    [n |-> 0, lg |-> 0, passed |-> FALSE, writes |-> 0, flushes |-> 0, failure |-> "none",
     outcome |-> "none"]

\* The log calls the threads have made so far
Started(c, ts) ==
    LET RECURSIVE Sum(_)
        Sum(S0) == IF S0 = {} THEN 0
                   ELSE LET t == CHOOSE x \in S0 : TRUE IN c[t].n + Sum(S0 \ {t})
    IN Sum(ts)

\* What one call of stream.write appends: its data, as pieces that carry the call
Pieces(t, n, data) == [i \in 1..Len(data) |-> [call |-> <<t, n>>, text |-> data[i]]]

\* Thread t calls log(level, message, **kwargs) on logger lg and runs it up to the
\* first stream call: the level test, _prepare_entry and the rendering of _emit
TLog(t, lg, level, message, kwargs) ==
    /\ epc[t] = "idle"
    /\ Started(ecall, DOMAIN ecall) < MaxStreamCalls
    /\ LET lowered == Lower(level)
           call == [NotCalled EXCEPT !.n = ecall[t].n + 1, !.lg = lg]
           counter == NextCounter(event_id_counter)
           entry == PrepareEntry(Bindings(lg), lowered, message, kwargs, clock,
                                 EventId(clock, counter))
           output == [pretty |-> loggers[lg].pretty, colorize |-> loggers[lg].colorize,
                      entry |-> entry]
       IN IF ArgsRaise(kwargs)
          THEN /\ ecall' = [ecall EXCEPT ![t] = [call EXCEPT !.outcome = "raised"]]
               /\ UNCHANGED <<event_id_counter, epc, todo>>
          ELSE IF BelowThreshold(lowered, loggers[lg].level_threshold)
          THEN /\ ecall' = [ecall EXCEPT ![t] = [call EXCEPT !.outcome = "filtered"]]
               /\ UNCHANGED <<event_id_counter, epc, todo>>
          ELSE /\ event_id_counter' = counter
               /\ IF EmitRaises(loggers[lg].pretty, entry)
                  THEN /\ ecall' = [ecall EXCEPT ![t] =
                                      [call EXCEPT !.passed = TRUE, !.outcome = "raised"]]
                       /\ UNCHANGED <<epc, todo>>
                  ELSE /\ ecall' = [ecall EXCEPT ![t] =
                                      [call EXCEPT !.passed = TRUE, !.outcome = "running"]]
                       /\ epc' = [epc EXCEPT ![t] = "emit"]
                       /\ todo' = [todo EXCEPT ![t] = EmitCalls(output)]
    /\ UNCHANGED <<environ, config, use_pretty, heap, loggers, derived, clock, lastLine,
                   nLines, last>>
    /\ UNCHANGED <<stream, flushed, idVars, errVars, spanVars>>

\* The record of a call after one more stream call was made
Counted(c, call) ==
    IF call = "write" THEN [c EXCEPT !.writes = @ + 1] ELSE [c EXCEPT !.flushes = @ + 1]

\* Thread t makes the next stream call of its log call; the stream may fail it.
\* One call of write appends all its data at once.
TStreamCall(t) ==
    /\ epc[t] = "emit"
    /\ LET c == Head(todo[t])
           rest == Tail(todo[t])
           counted == Counted(ecall[t], c.call)
       IN \E ok \in BOOLEAN :
            /\ IF ok /\ c.call = "write"
               THEN stream' = stream \o Pieces(t, ecall[t].n, c.data) /\ UNCHANGED flushed
               ELSE IF ok
               THEN flushed' = Len(stream) /\ UNCHANGED stream
               ELSE UNCHANGED <<stream, flushed>>
            /\ LET failed == IF ok THEN counted ELSE [counted EXCEPT !.failure = c.call]
               IN IF ~ok /\ OnStreamFailure(c.call) = "raise"
                  THEN /\ ecall' = [ecall EXCEPT ![t] = [failed EXCEPT !.outcome = "raised"]]
                       /\ epc' = [epc EXCEPT ![t] = "idle"]
                       /\ todo' = [todo EXCEPT ![t] = <<>>]
                  ELSE IF rest = <<>>
                  THEN /\ ecall' = [ecall EXCEPT ![t] = [failed EXCEPT !.outcome = "returned"]]
                       /\ epc' = [epc EXCEPT ![t] = "idle"]
                       /\ todo' = [todo EXCEPT ![t] = <<>>]
                  ELSE /\ ecall' = [ecall EXCEPT ![t] = failed]
                       /\ todo' = [todo EXCEPT ![t] = rest]
                       /\ UNCHANGED epc
    /\ UNCHANGED <<loggerVars, idVars, errVars, spanVars>>

\* The log calls of the threads
StreamKw == { [test |-> B(TRUE)], [payload |-> Obj] }

StreamLevels == {"debug", "error"}

----------------------------------------------------------------------------
(* get_logger and LoggerUtils.with_span *)

NoExit == [how |-> "none"]

\* get_logger(): _current_logger.get() or logger, in a context where the
\* variable holds current
GetLogger(current) == IF current = 0 THEN Root ELSE current

\* _current_logger.reset(token), had it put the variable back to its default
ResetToDefault(token) == 0

\* _current_logger.reset(token): the variable holds what it held before the set
\* that returned the token
Reset(token) == token

\* Thread t calls a function wrapped by with_span(span_context): the wrapper binds
\* a logger to the span from the root logger, sets it as the current logger of
\* the context and calls the function
SpanEnter(t, span_context) ==
    /\ DeriveLogger(Root, "bind_trace",
                    [trace_id |-> Get(span_context, "trace_id", None),
                     span_id |-> Get(span_context, "span_id", None)])
    /\ current_logger' = [current_logger EXCEPT ![t] = Len(loggers) + 1]
    /\ spans' = [spans EXCEPT ![t] =
                    Append(@, [span_context |-> span_context, token |-> current_logger[t],
                               before |-> GetLogger(current_logger[t])])]
    /\ exited' = [exited EXCEPT ![t] = NoExit]

\* The function that thread t called last returns or raises: the finally clause
\* of its wrapper resets the variable with the token
SpanExit(t, how) ==
    /\ spans[t] # <<>>
    /\ LET frame == spans[t][Len(spans[t])]
       IN /\ current_logger' = [current_logger EXCEPT ![t] = Reset(frame.token)]
          /\ spans' = [spans EXCEPT ![t] = SubSeq(@, 1, Len(@) - 1)]
          /\ exited' = [exited EXCEPT ![t] =
                           [how |-> how, before |-> frame.before,
                            after |-> GetLogger(Reset(frame.token))]]
    /\ UNCHANGED <<loggerVars, idVars, errVars, streamVars>>

\* Thread t logs through get_logger()
SpanLog(t, message) ==
    /\ LogVia("info", EmptyDict, GetLogger(current_logger[t]), "info", message, EmptyDict)
    /\ exited' = [exited EXCEPT ![t] = NoExit]
    /\ UNCHANGED <<environ, config, use_pretty, heap, loggers, derived, clock, idVars, errVars,
                   streamVars, current_logger, spans>>

\* The span contexts handed to with_span
SpanContexts ==
    { [trace_id |-> S("trace-1"), span_id |-> S("span-1")],
      [trace_id |-> S("trace-2")],
      EmptyDict }

----------------------------------------------------------------------------
(* Inputs of the log calls *)

LevelArgs == {"debug", "info", "warn", "error", "warning", "INFO", "trace"}

Messages == {S("Test message"), S(""), None, N(5)}

\* The keyword arguments the model passes to the log methods
KwSamples ==
    { EmptyDict,
      [test |-> B(TRUE)],
      [trace_id |-> S("trace-override")],
      [trace_id |-> None, request_id |-> None],
      [service |-> S("shadow")],
      [event_id |-> S("evt_custom")],
      [event_id |-> None],
      [context |-> D([trace_id |-> S("nested"), a |-> None]), a |-> S("outer"), b |-> None],
      [context |-> S("not a dict"), user |-> S("bob")] }

\* Keyword arguments of unusual shape: parameter names, values without a JSON encoding
ShapeKw ==
    { EmptyDict,
      [test |-> B(TRUE)],
      [level |-> S("shadow")],
      [message |-> S("shadow")],
      [payload |-> Obj],
      [context |-> D([payload |-> Obj])] }

ShapeLevels == {"debug", "info", "ERROR", "trace"}

LogInputs ==
    [level : {"error"}, message : {S("Test message")}, kw : KwSamples]
    \cup [level : LevelArgs, message : {S("Test message")}, kw : {EmptyDict}]
    \cup [level : {"error"}, message : {m \in Messages : m.k # "int"}, kw : {EmptyDict}]

ShortcutKw == { [duration_ms |-> N(250), test |-> B(TRUE)] }

\* The errors the model hands to log_error
ErrorSamples ==
    { [name |-> "ValueError", msg |-> <<"b", "o", "o", "m">>, attrs |-> EmptyDict, falsy |-> FALSE,
       fails |-> "none"],
      [name |-> "AuthError", msg |-> <<>>, falsy |-> FALSE, fails |-> "none",
       attrs |-> [password |-> Cs(<<"E", "4", "2">>), code |-> Cs(<<"m", "y", " ", "T", "o", "k", "e", "n">>)]],
      [name |-> "ValueError", msg |-> <<"b", "o", "o", "m">>, attrs |-> EmptyDict, falsy |-> FALSE,
       fails |-> "str"] }

ErrorKw == { EmptyDict, [error_type |-> S("custom"), context |-> D([component |-> S("db")])],
             [context |-> S("not a dict")] }

\* The bindings the model derives loggers with in Spec
MainBinds ==
    { [trace_id |-> S("trace-12345678"), request_id |-> S("req-1")],
      [category |-> S("database"), user |-> S("alice")] }

\* The log calls of SpecBind
BindLogInputs ==
    [level : {"error"}, message : {S("Test message")},
     kw : { [trace_id |-> S("trace-override")], [trace_id |-> None, user |-> None] }]

\* The log calls compared with the Node.js logger
ParityKw ==
    { EmptyDict,
      [trace_id |-> S("trace-override"), span_id |-> None],
      [duration_ms |-> N(250), user |-> S("bob")],
      [context |-> D([a |-> S("nested"), b |-> S("kept")]), a |-> S("outer")],
      [context |-> D([a |-> None])],
      [context |-> D([a |-> S("nested")]), a |-> None],
      [context |-> S("not a dict"), user |-> S("bob")] }

ParityInputs ==
    [level : {"debug", "info", "error"}, message : {S("Operation with trace")}, kw : ParityKw]
    \cup [level : {"error"}, message : {None, N(5)}, kw : {EmptyDict}]

\* The trace ids, categories and call fields of the calls rendered in pretty mode
PrettyTraceIds ==
    { Cs(<<"t", "r", "a", "c", "e", "-", "1", "2", "3", "4", "5", "6", "7", "8">>),
      Cs(<<"a", "b", "c">>),
      Cs(<<>>) }

PrettyCategories == { S("database"), S("") }

PrettyKw == { EmptyDict, [duration_ms |-> N(250)], [duration_ms |-> N(0), test |-> B(TRUE)] }

NoError == [k |-> "no error"]
NoDerivation == [op |-> "none"]

----------------------------------------------------------------------------
(* Specifications *)

InitLogging(env, isatty) ==
    LET cfg == ResolveConfig(env)
        pretty == UsePretty(cfg, isatty)
    IN /\ environ = [env |-> env, isatty |-> isatty]
       /\ config = cfg
       /\ use_pretty = pretty
       /\ heap = << [service |-> cfg.service, environment |-> cfg.environment,
                     version |-> cfg.version, category |-> S("app")] >>
       /\ loggers = << [bindings |-> 1, pretty |-> pretty, colorize |-> pretty /\ isatty,
                        level_threshold |-> LevelWeight(cfg.log_level, DefaultThreshold)] >>
       /\ derived = NoDerivation
       /\ event_id_counter = 0
       /\ clock = 0
       /\ lastLine = NoLine
       /\ nLines = 0
       /\ last = NoCall

InitThreads ==
    /\ lock = Free
    /\ pc = [t \in Threads |-> "idle"]
    /\ tmp = [t \in Threads |-> 0]
    /\ calls = [t \in Threads |-> 0]
    /\ returned = <<>>

InitNoError ==
    /\ errIn = NoError
    /\ serialized = NotSerialized

\* No thread is in a log call, and nothing was written to the stream
InitStream ==
    /\ stream = <<>>
    /\ flushed = 0
    /\ epc = [t \in Threads |-> "idle"]
    /\ todo = [t \in Threads |-> <<>>]
    /\ ecall = [t \in Threads |-> NotCalled]

\* No thread is in a wrapper of with_span, and _current_logger was never set
InitSpans ==
    /\ current_logger = [t \in Threads |-> 0]
    /\ spans = [t \in Threads |-> <<>>]
    /\ exited = [t \in Threads |-> NoExit]

Init ==
    /\ \E env \in Envs : InitLogging(env, FALSE)
    /\ InitThreads
    /\ InitNoError
    /\ InitStream
    /\ InitSpans

Receivers == 1..Len(loggers)

\* The logger created last
Newest == Len(loggers)

\* The loggers of the newest derivation: the receiver and the logger returned
Involved ==
    IF derived = NoDerivation THEN {Root}
    ELSE {derived.parent, derived.child} \cap Receivers

\* The log calls, with the inputs of Spec
Next ==
    \/ \E lg \in Receivers, b \in MainBinds : Len(loggers) < MaxLoggers /\ Bind(lg, b)
    \/ Len(loggers) < MaxLoggers
          /\ Construct(D([service |-> None, span_id |-> S("span-456")]), FALSE)
    \/ \E lg \in Involved, in \in LogInputs : Log(lg, in.level, in.message, in.kw)
    \/ \E lg \in Involved, kw \in ShortcutKw : Debug(lg, S("Test message"), kw)
    \/ \E lg \in Involved, kw \in ShortcutKw : Info(lg, S("Test message"), kw)
    \/ \E lg \in Involved, kw \in ShortcutKw : Warn(lg, S("Test message"), kw)
    \/ \E lg \in Involved, kw \in ShortcutKw : Error(lg, S("Test message"), kw)
    \/ \E lg \in Involved, r \in StrOrNone({"req-9"}), ua \in StrOrNone({"curl"}) :
          LogRequest(lg, S("GET"), S("/"), r, ua, [route |-> S("home"), b |-> None])
    \/ \E lg \in Involved, r \in StrOrNone({"req-9"}) :
          LogResponse(lg, S("GET"), S("/"), N(200), N(42), r, [route |-> S("home")])
    \/ \E lg \in Involved, e \in ErrorSamples, kw \in ErrorKw :
          (e.fails = "none" \/ kw = EmptyDict) /\ LogError(lg, e, kw)

Spec == Init /\ [][Next]_vars

\* The derivations of loggers, with a few log calls on the loggers derived
InitBind ==
    /\ \E env \in {e \in Envs : e["HOMELAB_LOG_LEVEL"] = Unset
                                  /\ e["HOMELAB_FORCE_PRETTY"] = "true"} :
          InitLogging(env, FALSE)
    /\ InitThreads
    /\ InitNoError
    /\ InitStream
    /\ InitSpans

NextBind ==
    \/ \E lg \in Receivers : Len(loggers) < MaxChain /\ Child(lg, [category |-> None])
    \/ \E lg \in Receivers, b \in BindSamples : Len(loggers) < MaxChain /\ Bind(lg, b)
    \/ Len(loggers) < MaxChain /\ WithCategory(Newest, S("database"))
    \/ Len(loggers) < MaxChain /\ BindTrace(Newest, S("trace-123"), S("span-456"))
    \/ Len(loggers) < MaxChain /\ WithRequest(Newest, S("req-123"), None)
    \/ Len(loggers) < MaxChain /\ CreateLogger(Newest, S("api"), None, None, None)
    \/ Len(loggers) < MaxChain /\ Construct(D([trace_id |-> S("trace-direct")]), FALSE)
    \/ \E lg \in Involved, in \in BindLogInputs :
          nLines < MaxBindLines /\ Log(lg, in.level, in.message, in.kw)
    \/ \E lg \in Involved : nLines < MaxBindLines /\ Info(lg, S("Test message"), EmptyDict)
    \/ \E lg \in Involved :
          nLines < MaxBindLines /\ LogRequest(lg, S("GET"), S("/"), None, None, EmptyDict)
    \/ \E lg \in Involved :
          nLines < MaxBindLines
          /\ LogResponse(lg, S("GET"), S("/"), N(200), N(42), None, EmptyDict)
    \/ \E lg \in Involved, e \in {e \in ErrorSamples : e.attrs = EmptyDict /\ e.fails = "none"} :
          nLines < MaxBindLines /\ LogError(lg, e, EmptyDict)

SpecBind == InitBind /\ [][NextBind]_vars

\* Log calls with arguments of every shape, on the root logger in either mode
InitShape ==
    /\ \E env \in {e \in Envs : e["HOMELAB_LOG_LEVEL"] = Unset} : InitLogging(env, FALSE)
    /\ InitThreads
    /\ InitNoError
    /\ InitStream
    /\ InitSpans

NextShape ==
    \/ \E level \in ShapeLevels, message \in Messages, kw \in ShapeKw :
          Log(Root, level, message, kw)
    \/ \E message \in Messages, kw \in ShapeKw : Debug(Root, message, kw)
    \/ \E message \in Messages, kw \in ShapeKw : Info(Root, message, kw)
    \/ \E message \in Messages, kw \in ShapeKw : Warn(Root, message, kw)
    \/ \E message \in Messages, kw \in ShapeKw : Error(Root, message, kw)

SpecShape == InitShape /\ [][NextShape]_vars

\* The calls of the comparison with the Node.js logger: machine mode, the root
\* logger and the loggers of the three scenarios
InitParity ==
    /\ \E env \in {e \in Envs : e["HOMELAB_FORCE_PRETTY"] = Unset} : InitLogging(env, FALSE)
    /\ InitThreads
    /\ InitNoError
    /\ InitStream
    /\ InitSpans

NextParity ==
    \/ Len(loggers) < MaxChain /\ WithCategory(Root, S("database"))
    \/ Len(loggers) < MaxChain /\ BindTrace(Root, S("trace-123"), S("span-456"))
    \/ \E lg \in Involved, in \in ParityInputs : Log(lg, in.level, in.message, in.kw)
    \/ \E lg \in Involved : Info(lg, S("Test message"), [test |-> B(TRUE)])

SpecParity == InitParity /\ [][NextParity]_vars

\* Log calls rendered in pretty mode, to a terminal and to a stream that is none,
\* on loggers with a trace id and a category bound
InitPretty ==
    /\ \E env \in {e \in Envs : e["HOMELAB_FORCE_PRETTY"] = "true"}, isatty \in BOOLEAN :
          InitLogging(env, isatty)
    /\ InitThreads
    /\ InitNoError
    /\ InitStream
    /\ InitSpans

NextPretty ==
    \/ \E lg \in Receivers, trace_id \in PrettyTraceIds :
          Len(loggers) < MaxChain /\ BindTrace(lg, trace_id, S("span-123"))
    \/ \E lg \in Receivers, category \in PrettyCategories :
          Len(loggers) < MaxChain /\ WithCategory(lg, category)
    \/ \E lg \in Involved, kw \in PrettyKw : Info(lg, S("Test with trace"), kw)
    \/ \E lg \in Involved : Error(lg, S(""), EmptyDict)

SpecPretty == InitPretty /\ [][NextPretty]_vars

\* Threads that call functions wrapped by with_span, nested, which return or
\* raise, and that log through get_logger()
InitSpan ==
    /\ \E env \in {e \in Envs : e["HOMELAB_LOG_LEVEL"] = Unset
                                  /\ e["HOMELAB_FORCE_PRETTY"] = Unset} :
          InitLogging(env, FALSE)
    /\ InitThreads
    /\ InitNoError
    /\ InitStream
    /\ InitSpans

NextSpan ==
    \/ \E t \in Threads, span_context \in SpanContexts :
          Len(loggers) < MaxChain /\ SpanEnter(t, span_context)
    \/ \E t \in Threads : SpanExit(t, "return")
    \/ \E t \in Threads : SpanExit(t, "raise")
    \/ \E t \in Threads : SpanLog(t, S("Test message"))

SpecSpan == InitSpan /\ [][NextSpan]_vars

\* Threads that log concurrently to one stream, through the root logger, which
\* renders pretty, and through a logger constructed for machine mode
InitStreaming ==
    /\ \E env \in {e \in Envs : e["HOMELAB_FORCE_PRETTY"] = "true"} : InitLogging(env, FALSE)
    /\ InitThreads
    /\ InitNoError
    /\ InitStream
    /\ InitSpans

NextStream ==
    \/ Len(loggers) < MaxLoggers /\ Construct(D(EmptyDict), FALSE)
    \/ \E t \in Threads, lg \in Receivers, level \in StreamLevels, kw \in StreamKw :
          TLog(t, lg, level, S("Test message"), kw)
    \/ \E t \in Threads : TStreamCall(t)

SpecStream == InitStreaming /\ [][NextStream]_vars

\* The module imported in every environment, then chains of derived loggers,
\* each derived from the newest, and log calls on them
InitConfig ==
    /\ \/ \E env \in ModeEnvs, isatty \in BOOLEAN : InitLogging(env, isatty)
       \/ \E env \in DefaultEnvs : InitLogging(env, FALSE)
    /\ InitThreads
    /\ InitNoError
    /\ InitStream
    /\ InitSpans

NextConfig ==
    \/ Len(loggers) < MaxChain /\ Child(Newest, [category |-> S("database")])
    \/ Len(loggers) < MaxChain /\ Bind(Newest, [trace_id |-> S("trace-12345678")])
    \/ Len(loggers) < MaxChain /\ WithCategory(Newest, S("database"))
    \/ Len(loggers) < MaxChain /\ BindTrace(Newest, S("trace-123"), S("span-456"))
    \/ Len(loggers) < MaxChain /\ WithRequest(Newest, S("req-123"), None)
    \/ Len(loggers) < MaxChain /\ CreateLogger(Newest, S("api"), None, None, None)
    \/ \E lg \in Receivers : nLines < MaxBindLines /\ Info(lg, S("Test message"), EmptyDict)
    \/ \E lg \in Receivers : nLines < MaxBindLines /\ Error(lg, S("Test message"), EmptyDict)

SpecConfig == InitConfig /\ [][NextConfig]_vars

\* Threads that call generate_event_id concurrently
InitIds ==
    /\ InitLogging([n \in {"HOMELAB_SERVICE", "HOMELAB_ENVIRONMENT", "HOMELAB_LOG_TARGET",
                           "HOMELAB_LOG_LEVEL", "HOMELAB_FORCE_PRETTY", "pyproject"} |-> Unset], FALSE)
    /\ InitThreads
    /\ InitNoError
    /\ InitStream
    /\ InitSpans

NextIds ==
    \/ \E t \in Threads : IdCall(t)
    \/ \E t \in Threads : IdAcquire(t)
    \/ \E t \in Threads : IdLoad(t)
    \/ \E t \in Threads : IdStore(t)
    \/ \E t \in Threads : IdReturn(t)

SpecIds == InitIds /\ [][NextIds]_vars

\* serialize_error applied to every error of Errors
InitErr ==
    /\ InitLogging([n \in {"HOMELAB_SERVICE", "HOMELAB_ENVIRONMENT", "HOMELAB_LOG_TARGET",
                           "HOMELAB_LOG_LEVEL", "HOMELAB_FORCE_PRETTY", "pyproject"} |-> Unset], FALSE)
    /\ InitThreads
    /\ errIn \in Errors
    /\ serialized = NotSerialized
    /\ InitStream
    /\ InitSpans

NextErr == Serialize

SpecErr == InitErr /\ [][NextErr]_vars

----------------------------------------------------------------------------
(* Properties *)

\* The entry of the line the most recent log call wrote
Entry == lastLine.entry

\* The context of that entry
Context == lastLine.entry.context.d

Wrote == lastLine # NoLine

\* C1: a log call of any kind whose level weighs less than the threshold of its
\* logger writes nothing and leaves the event id counter as it was.
C1_FilteredCallIsNoOp ==
    (last.op # "none" /\ ~last.raised
        /\ LevelWeight(Lower(last.level), UnknownWeight) < loggers[last.lg].level_threshold)
    => /\ lastLine = NoLine
       /\ nLines = last.lines_before
       /\ event_id_counter = last.counter_before

\* A call was filtered after a line had been written and an id consumed
C1_Witness ==
    /\ last.op \in {"log", "debug", "info", "log_request", "log_response"}
    /\ ~last.emitted /\ ~last.raised
    /\ nLines > 0 /\ event_id_counter > 0

\* C2: the counters of the ids that generate_event_id returns are strictly
\* increasing in the order of the returns, whichever threads made the calls.
C2_CountersStrictlyIncrease ==
    \A i, j \in 1..Len(returned) : i < j => returned[i].id.n < returned[j].id.n

\* Two threads have returned ids while a third call waits for the lock
C2_Witness ==
    /\ \E i, j \in 1..Len(returned) : returned[i].thread # returned[j].thread
    /\ \E t \in Threads : pc[t] = "acquire" /\ lock \notin {Free, t}

\* key is in the entry, at the root or in the context, with this value
Carries(entry, key, value) ==
    \/ key \in DOMAIN entry /\ entry[key] = value
    \/ key \in DOMAIN entry.context.d /\ entry.context.d[key] = value

\* C3: every field a logger was bound with through bind, with a value that is
\* not None, is in every entry the logger emits, unless the log call passes the key.
C3_BoundFieldsAppear ==
    (Wrote /\ derived.op = "bind" /\ last.lg = derived.child)
    => \A key \in DOMAIN derived.via :
          (derived.via[key] # None /\ key \notin DOMAIN last.inner)
          => Carries(Entry, key, derived.via[key])

C5_LoggersImmutable ==
    [][ /\ \A lg \in 1..Len(loggers) :
             /\ loggers'[lg] = loggers[lg]
             /\ heap'[loggers[lg].bindings] = heap[loggers[lg].bindings]
        /\ \A a, b \in 1..Len(loggers') :
             a # b => loggers'[a].bindings # loggers'[b].bindings ]_vars

\* A parent has logged after a child with other bindings was derived from it
C5_Witness ==
    /\ derived.op \in {"bind", "child", "with_category", "bind_trace", "with_request",
                       "create_logger"}
    /\ Bindings(derived.child) # Bindings(derived.parent)
    /\ Wrote /\ last.lg = derived.parent

\* The keys the caller passed to the log call, the context mapping apart
CallerKeys == DOMAIN last.inner \ {"context"}

\* C6: no key of an entry is both at the root and in the context; a key the caller
\* passed is at the root only if it is an optional root field, and otherwise,
\* unless passed as None, it is in the context.
C6_RootAndContextDisjoint ==
    Wrote
    => /\ (DOMAIN Entry \ {"context"}) \cap DOMAIN Context = {}
       /\ \A key \in CallerKeys \ OPTIONAL_ROOT_FIELDS :
             last.inner[key] # None
             => key \in DOMAIN Context /\ Context[key] = last.inner[key]

\* C7: an entry written in machine mode has the eight required fields and the
\* context, and no root key holds None.
C7_RequiredFieldsPresent ==
    (Wrote /\ ~lastLine.pretty)
    => /\ REQUIRED_FIELDS \cup {"context"} \subseteq DOMAIN Entry
       /\ Entry["context"].k = "dict"
       /\ \A key \in DOMAIN Entry : Entry[key] # None

\* C8: the level of an entry is one of debug, info, warn, error.
C8_LevelIsCanonical ==
    Wrote => Entry["level"] \in {S("debug"), S("info"), S("warn"), S("error")}

\* C9: the event_id of an entry is the id the generator produced for the call,
\* and its counter is the number of the line, so that no two lines share an id.
C9_EventIdFromGenerator ==
    Wrote
    => /\ "event_id" \in DOMAIN Entry
       /\ Entry["event_id"] = last.generated
       /\ last.generated = EventId(clock, nLines)

\* C10, as claimed: an attribute of the error whose name matches a sensitive
\* pattern is in the serialized error with the value "[REDACTED]".
C10_SensitiveNameRedacted ==
    serialized.k = "dict"
    => \A key \in DOMAIN errIn.attrs :
          MatchesSensitive(NameChars[key])
          => key \in DOMAIN serialized.d /\ serialized.d[key] = REDACTED

\* C10, amended: an attribute whose name matches a sensitive pattern is left out
\* of the serialized error, no such name being on the allowlist; an allowlisted
\* public attribute whose string value matches a pattern is "[REDACTED]".
C10_SensitiveNameOmittedValueRedacted ==
    serialized.k = "dict"
    => \A key \in DOMAIN errIn.attrs :
          /\ MatchesSensitive(NameChars[key]) => key \notin DOMAIN serialized.d
          /\ (key \in SAFE_ATTRIBUTES /\ errIn.attrs[key].k = "chars"
                 /\ MatchesSensitive(errIn.attrs[key].c))
             => key \in DOMAIN serialized.d /\ serialized.d[key] = REDACTED

\* An error with a password attribute and a code that holds a token was serialized
C10_Witness ==
    /\ serialized.k = "dict"
    /\ {"password", "code"} \subseteq DOMAIN errIn.attrs
    /\ errIn.attrs["code"].k = "chars" /\ MatchesSensitive(errIn.attrs["code"].c)
    /\ "password" \notin DOMAIN serialized.d
    /\ serialized.d["code"] = REDACTED

\* C11: the keys of a serialized error are among name, message, stack and the
\* six names args, code, errno, message, filename, lineno; no other attribute of
\* the error, and none whose name starts with an underscore, is in the result.
C11_OnlyAllowlistedKeys ==
    serialized.k = "dict"
    => /\ DOMAIN serialized.d \subseteq
             {"name", "message", "stack"}
                \cup {"args", "code", "errno", "message", "filename", "lineno"}
       /\ \A key \in DOMAIN errIn.attrs : IsPrivate(key) => key \notin DOMAIN serialized.d

\* An error with a private attribute, an unlisted one and an allowlisted one was
\* serialized, and the allowlisted one was copied
C11_Witness ==
    /\ serialized.k = "dict"
    /\ {"_token", "detail", "code"} \subseteq DOMAIN errIn.attrs
    /\ "code" \in DOMAIN serialized.d

\* C12: serialize_error raises on no error: whatever the error, its result is a
\* mapping that has at least name and message.
C12_SerializationNeverRaises ==
    serialized # NotSerialized
    => /\ serialized # Raised
       /\ errIn.fails # "none"
             => serialized.k = "dict" /\ {"name", "message"} \subseteq DOMAIN serialized.d

\* C13: a call of log, debug, info, warn or error raises on no message, level or
\* keyword fields: it is filtered, or it writes one entry whose message is a string.
C13_NoRaiseOnCallerData ==
    last.op \in {"log", "debug", "info", "warn", "error"}
    => /\ ~last.raised
       /\ \/ ~last.emitted /\ lastLine = NoLine /\ nLines = last.lines_before
          \/ /\ last.emitted /\ Wrote /\ nLines = last.lines_before + 1
             /\ IsStr(Entry["message"])

\* The positions of the stream that hold what the log call c of thread t wrote
PositionsOf(t, c) == {i \in 1..Len(stream) : stream[i].call = <<t, c.n>>}

\* C14: a log call in which a stream call (write or flush) failed has raised: it
\* ended with that stream call, did not report success, and repeated no stream
\* call; after a failed write it made no flush and left nothing in the stream.
C14_StreamFailurePropagates ==
    \A t \in Threads :
        ecall[t].failure # "none"
        => /\ ecall[t].outcome = "raised"
           /\ epc[t] = "idle" /\ todo[t] = <<>>
           /\ ecall[t].writes <= 1 /\ ecall[t].flushes <= 1
           /\ ecall[t].failure = "write"
                 => ecall[t].flushes = 0 /\ PositionsOf(t, ecall[t]) = {}
           /\ ecall[t].failure = "flush" => ecall[t].writes = 1

\* The write of one thread's call failed and the flush of another's
C14_Witness ==
    \E t, u \in Threads :
        /\ ecall[t].failure = "write" /\ ecall[u].failure = "flush"
        /\ PositionsOf(u, ecall[u]) # {}

\* C15, for the calls that return: a log call that passed the level test and
\* returned has made one write and then one flush, in either rendering mode:
\* its line and the terminator are in the stream and flushed when it returns.
\* A call still running has made at most one write and no flush before it.
C15_OneWriteThenOneFlush ==
    \A t \in Threads :
        /\ ecall[t].outcome = "returned"
              => /\ ecall[t].passed
                 /\ ecall[t].writes = 1 /\ ecall[t].flushes = 1
                 /\ \E i \in 1..(Len(stream) - 1) :
                       /\ PositionsOf(t, ecall[t]) = {i, i + 1}
                       /\ stream[i].text.pretty = loggers[ecall[t].lg].pretty
                       /\ stream[i + 1].text = LineSep
                       /\ i + 1 <= flushed
        /\ ecall[t].outcome = "running"
              => /\ ecall[t].flushes = 0 /\ ecall[t].writes <= 1
                 /\ ecall[t].writes = 1 <=> PositionsOf(t, ecall[t]) # {}

\* C15: every log call that passes the level test makes one write and then one
\* flush and returns after the flush, in either rendering mode; only a failure
\* of the stream ends a call otherwise.
C15_EveryPassingCallWritesAndFlushes ==
    /\ \A t \in Threads :
          (ecall[t].passed /\ ecall[t].failure = "none" /\ ecall[t].outcome # "running")
          => ecall[t].outcome = "returned"
    /\ C15_OneWriteThenOneFlush

\* Two calls have returned, one on a logger in pretty mode and one on a logger in
\* machine mode
C15_Witness ==
    \E t, u \in Threads :
        /\ ecall[t].outcome = "returned" /\ ecall[u].outcome = "returned"
        /\ loggers[ecall[t].lg].pretty /\ ~loggers[ecall[u].lg].pretty

\* C16: in the stream, the line of every call is followed at once by the
\* terminator of that call, and every terminator follows the line of its call:
\* no line is cut by what another thread writes.
C16_LinesContiguous ==
    \A i \in 1..Len(stream) :
        IF stream[i].text = LineSep
        THEN i > 1 /\ stream[i - 1].text # LineSep /\ stream[i - 1].call = stream[i].call
        ELSE i < Len(stream) /\ stream[i + 1].text = LineSep
                /\ stream[i + 1].call = stream[i].call

\* A thread wrote its line through another logger while a thread that had
\* written was still to flush
C16_Witness ==
    \E t, u \in Threads :
        /\ t # u
        /\ epc[t] = "emit" /\ ecall[t].writes = 1
        /\ ecall[u].lg # ecall[t].lg
        /\ \E i \in PositionsOf(t, ecall[t]), j \in PositionsOf(u, ecall[u]) : i < j

\* C17, for the calls that do not raise: log_error(err, fields) writes one entry
\* of level error.  Its message is the message of the error, "Error occurred"
\* when that is empty.  Its context
\* holds the fields (those of the context mapping, overridden by the others),
\* the serialized error under err, and error_type and error_message: the
\* caller's values when supplied, else the type name and message of the error.
C17_LogErrorEntry ==
    (last.op = "log_error" /\ ~last.raised)
    => LET error == last.kw.error
           fields == Del(last.kw.kwargs, "context")
           given == IF "context" \in DOMAIN last.kw.kwargs
                    THEN last.kw.kwargs["context"].d ELSE EmptyDict
           supplied == DOMAIN fields \cup DOMAIN given
           text == IF error.msg = <<>> THEN S("Error occurred") ELSE Cs(error.msg)
       IN /\ Wrote /\ nLines = last.lines_before + 1
          /\ Entry["level"] = S("error")
          /\ Entry["message"] = text
          /\ DOMAIN Context = supplied \cup {"err", "error_type", "error_message"}
          /\ \A key \in DOMAIN fields \ {"err"} : Context[key] = fields[key]
          /\ \A key \in DOMAIN given \ (DOMAIN fields \cup {"err"}) : Context[key] = given[key]
          /\ Context["err"] = SerializeError(error)
          /\ "error_type" \notin supplied => Context["error_type"] = S(error.name)
          /\ "error_message" \notin supplied => Context["error_message"] = text

\* C17: log_error(err, fields) raises on no error and no fields, and writes the
\* entry described above.
C17_LogErrorAlwaysEmits ==
    last.op = "log_error" => ~last.raised /\ C17_LogErrorEntry

\* log_error on an error with an empty message, with error_type and a context
\* mapping supplied
C17_Witness ==
    /\ last.op = "log_error" /\ ~last.raised /\ Wrote
    /\ last.kw.error.msg = <<>>
    /\ {"error_type", "context"} \subseteq DOMAIN last.kw.kwargs
    /\ Context["error_type"] = S("custom")

\* C18: log_request and log_response, when info passes the threshold of the
\* logger, write one entry of level info whose context has the method and the
\* url of the call; the request_id supplied, and for log_response the
\* status_code and the duration_ms, are root fields of the entry.
C18_RequestResponseEntry ==
    (last.op \in {"log_request", "log_response"}
        /\ LEVEL_WEIGHTS["info"] >= loggers[last.lg].level_threshold)
    => /\ ~last.raised /\ Wrote /\ nLines = last.lines_before + 1
       /\ Entry["level"] = S("info")
       /\ {"method", "url"} \subseteq DOMAIN Context
       /\ Context["method"] = S("GET") /\ Context["url"] = S("/")
       /\ last.kw.request_id # None
             => "request_id" \in DOMAIN Entry /\ Entry["request_id"] = last.kw.request_id
       /\ last.op = "log_response"
             => /\ {"status_code", "duration_ms"} \subseteq DOMAIN Entry
                /\ Entry["status_code"] = last.kw.status_code
                /\ Entry["duration_ms"] = last.kw.duration_ms

\* log_response with a request_id, on a logger bound to another request_id
C18_Witness ==
    /\ last.op = "log_response" /\ Wrote
    /\ last.kw.request_id # None
    /\ "request_id" \in DOMAIN Bindings(last.lg)
    /\ Bindings(last.lg)["request_id"] # last.kw.request_id
    /\ Entry["request_id"] = last.kw.request_id

\* The log target and the force-pretty flag, read from the environment
TargetIsStdout ==
    \/ environ.env["HOMELAB_LOG_TARGET"] = Unset
    \/ environ.env["HOMELAB_LOG_TARGET"] \in {"stdout", "STDOUT"}

ForcePretty == environ.env["HOMELAB_FORCE_PRETTY"] \in {"true", "TRUE"}

\* C19: the mode is pretty exactly when the log target is stdout and the
\* force-pretty flag is true or stdout is a terminal; every logger derived from
\* the root, through any chain of derivations, has that mode, and renders every
\* entry it writes in it.
C19_ModeDecidedOnce ==
    /\ use_pretty <=> (TargetIsStdout /\ (ForcePretty \/ environ.isatty))
    /\ \A lg \in Receivers : loggers[lg].pretty = use_pretty
    /\ Wrote => lastLine.pretty = use_pretty

\* A logger two derivations away from the root has written, with a target that
\* is not stdout and the force-pretty flag set
C19_Witness ==
    /\ ~TargetIsStdout /\ ForcePretty
    /\ Len(loggers) >= 3 /\ derived.parent > Root
    /\ Wrote /\ last.lg = derived.child

\* C20: the configuration is resolved in every environment: an unset service is
\* "unknown-service", an unset environment is "development", and with the level
\* unset or not a level name every logger has the threshold of info, 20.
C20_ConfigDefaults ==
    /\ environ.env["HOMELAB_SERVICE"] = Unset => config.service = S("unknown-service")
    /\ environ.env["HOMELAB_ENVIRONMENT"] = Unset => config.environment = S("development")
    /\ config.version.k = "str"
    /\ environ.env["HOMELAB_LOG_LEVEL"] \in {Unset, "verbose"}
          => \A lg \in Receivers : loggers[lg].level_threshold = 20

\* In an environment with no service and no environment set, and a level that
\* is no level name, a derived logger has written an info entry
C20_Witness ==
    /\ environ.env["HOMELAB_LOG_LEVEL"] = "verbose"
    /\ environ.env["HOMELAB_SERVICE"] = Unset
    /\ environ.env["HOMELAB_ENVIRONMENT"] = Unset
    /\ Len(loggers) >= 2
    /\ Wrote /\ last.op = "info" /\ last.lg > Root

\* The entry of the most recent line without the two fields that depend on the
\* time and on the implementation
Comparable(entry) == Del(Del(entry, "timestamp"), "event_id")

\* C21: for the same level, message, bindings and call fields under the same
\* configuration, the Python logger writes an entry exactly when the Node.js
\* logger does, and the two entries are equal in every field but timestamp
\* and event_id.
C21_SameEntryAsNode ==
    (last.op \in {"log", "info"} /\ ~last.raised)
    => /\ Wrote <=> NodePasses(Lower(last.level), loggers[last.lg].level_threshold)
       /\ Wrote => Comparable(Entry)
                      = Comparable(NodeEntry(Bindings(last.lg), Lower(last.level),
                                             last.message, last.inner, clock,
                                             last.generated))

\* The log methods that hand their keyword fields to _prepare_entry as they are
DirectOps == {"log", "debug", "info", "warn", "error"}

\* C22: in an entry written by a log call, each of the eight optional root fields
\* has the value of the call when the call passes the key with a value that is
\* not None, has the bound value when the call does not pass the key (and is
\* absent when nothing is bound), and is absent when the call passes the key as
\* None, bound or not.
C22_OptionalRootFields ==
    (Wrote /\ last.op \in DirectOps)
    => \A f \in OPTIONAL_ROOT_FIELDS :
          LET bound == Get(Bindings(last.lg), f, None)
          IN IF f \in DOMAIN last.kw
             THEN IF last.kw[f] # None
                  THEN f \in DOMAIN Entry /\ Entry[f] = last.kw[f]
                  ELSE f \notin DOMAIN Entry
             ELSE IF bound # None
                  THEN f \in DOMAIN Entry /\ Entry[f] = bound
                  ELSE f \notin DOMAIN Entry

\* A call passed trace_id and request_id as None on a logger that has both
\* bound, and the entry has neither
C22_Witness ==
    /\ Wrote /\ last.op \in DirectOps
    /\ last.kw = [trace_id |-> None, request_id |-> None]
    /\ {"trace_id", "request_id"} \subseteq DOMAIN Bindings(last.lg)
    /\ {"trace_id", "request_id"} \cap DOMAIN Entry = {}

\* C23: the context of an entry written by a log call is the nested context
\* mapping of the call, overridden key by key by the call fields that are
\* neither context nor optional root fields: where both have a key the call
\* field decides, and a context argument that is no mapping adds nothing.
\* Keys that hold None are left out on both sides: they are the matter of C24.
C23_ContextIsNestedOverridden ==
    (Wrote /\ last.op \in DirectOps)
    => LET given == Get(last.kw, "context", None)
           nested == IF given.k = "dict" THEN given.d ELSE EmptyDict
           remaining == DOMAIN last.kw \ (OPTIONAL_ROOT_FIELDS \cup {"context"})
           merged == [x \in DOMAIN nested \cup remaining |->
                         IF x \in remaining THEN last.kw[x] ELSE nested[x]]
       IN DropNone(Context) = DropNone(merged)

\* C24: no key of the context of an entry holds None, whether it came from a
\* call field or from a nested context mapping, the contexts that log_error,
\* log_request and log_response build from the fields of their callers included.
C24_NoNullInContext ==
    Wrote => \A key \in DOMAIN Context : Context[key] # None

\* C25: of the attribute values copied from an error into its serialized form,
\* a string in which a sensitive pattern occurs, in whatever case, is replaced
\* by "[REDACTED]"; a string in which none occurs, and a value that is no
\* string, is there as it was.
C25_MatchingStringsRedacted ==
    serialized.k = "dict"
    => \A key \in DOMAIN errIn.attrs \cap DOMAIN serialized.d :
          LET value == errIn.attrs[key]
          IN IF value.k = "chars"
                   /\ \E pattern \in SENSITIVE_PATTERNS :
                         Contains(LowerChars(value.c), pattern)
             THEN serialized.d[key] = S("[REDACTED]")
             ELSE serialized.d[key] = value

\* An error whose code holds "my Token" and whose message attribute holds a
\* number was serialized: the code is redacted, the number is kept
C25_Witness ==
    /\ serialized.k = "dict"
    /\ {"code", "message"} \subseteq DOMAIN errIn.attrs
    /\ errIn.attrs["code"] = Cs(<<"m", "y", " ", "T", "o", "k", "e", "n">>)
    /\ errIn.attrs["message"] = N(5)
    /\ serialized.d["code"] = REDACTED
    /\ serialized.d["message"] = N(5)

\* The segments of the header line of the most recent pretty line
Segments == {lastLine.output.line[i].seg : i \in 1..Len(lastLine.output.line)}

\* The text of the trace segment of that line
TraceText == (CHOOSE part \in {lastLine.output.line[i] : i \in 1..Len(lastLine.output.line)} :
                 part.seg = "trace").text

\* str(trace_id)[:8] followed by "...", in square brackets
First8Bracketed(trace_id) ==
    [k |-> "bracketed", dots |-> "...",
     id |-> Cs([i \in 1..(IF Len(trace_id.c) < 8 THEN Len(trace_id.c) ELSE 8) |-> trace_id.c[i]])]

\* C26: the header of a pretty line has the category segment exactly when the
\* category of the entry is not "app", the trace segment exactly when the entry
\* has a trace_id, and then it is the first 8 characters of the trace_id and
\* "..." in square brackets, and the duration segment exactly when the entry has
\* duration_ms; the dump of the context follows exactly when the context is not
\* empty.
C26_PrettySegments ==
    (Wrote /\ lastLine.pretty)
    => /\ "category" \in Segments <=> Entry["category"] # S("app")
       /\ "trace" \in Segments <=> "trace_id" \in DOMAIN Entry
       /\ "trace" \in Segments => TraceText = First8Bracketed(Entry["trace_id"])
       /\ "duration" \in Segments <=> "duration_ms" \in DOMAIN Entry
       /\ lastLine.output.dump # None <=> Context # EmptyDict

\* C26, amended: the category segment is there exactly when the category is not
\* empty and not "app", the trace segment exactly when the entry has a trace_id
\* that is not empty; the rest as claimed.
C26_PrettySegmentsOfTruthy ==
    (Wrote /\ lastLine.pretty)
    => /\ "category" \in Segments
             <=> (Entry["category"] # S("app") /\ Entry["category"] # S(""))
       /\ "trace" \in Segments
             <=> ("trace_id" \in DOMAIN Entry /\ Entry["trace_id"] # Cs(<<>>))
       /\ "trace" \in Segments => TraceText = First8Bracketed(Entry["trace_id"])
       /\ "duration" \in Segments <=> "duration_ms" \in DOMAIN Entry
       /\ lastLine.output.dump # None <=> Context # EmptyDict

\* An info call with duration_ms on a logger bound to trace-12345678 was rendered
\* with the trace segment and the duration segment, and without category and dump
C26_Witness ==
    /\ Wrote /\ lastLine.pretty
    /\ {"trace_id", "duration_ms"} \subseteq DOMAIN Entry
    /\ Entry["trace_id"] = Cs(<<"t", "r", "a", "c", "e", "-", "1", "2", "3", "4", "5", "6", "7", "8">>)
    /\ TraceText.id = Cs(<<"t", "r", "a", "c", "e", "-", "1", "2">>)
    /\ "duration" \in Segments /\ Entry["duration_ms"] = N(250)
    /\ "category" \notin Segments
    /\ lastLine.output.dump = None

\* The positions of the lines in the stream, and the counter of the event_id of
\* the line at a position
LinePositions == {i \in 1..Len(stream) : stream[i].text # LineSep}

CounterAt(i) == stream[i].text.entry["event_id"].n

\* C27: the lines are in the stream in strictly increasing order of the counter
\* of their event_id: the line of a call that got a smaller counter is never
\* after the line of a call that got a larger one.
C27_LinesInCounterOrder ==
    \A i, j \in LinePositions : i < j => CounterAt(i) < CounterAt(j)

\* C27, amended: no two lines have the same counter, and the lines of one thread
\* are in the stream in strictly increasing order of their counters; lines of
\* different threads may be in either order.
C27_LinesOfOneThreadInCounterOrder ==
    \A i, j \in LinePositions :
        i < j => /\ CounterAt(i) # CounterAt(j)
                 /\ stream[i].call[1] = stream[j].call[1] => CounterAt(i) < CounterAt(j)

\* Two threads have written their lines in the order opposite to that of their
\* counters
C27_Witness ==
    \E i, j \in LinePositions :
        i < j /\ stream[i].call[1] # stream[j].call[1] /\ CounterAt(i) > CounterAt(j)

\* C28: log_request and log_response called without a request_id, on a logger
\* that has a request_id bound, write an entry that has the bound request_id at
\* its root.
C28_BoundRequestIdKept ==
    (Wrote /\ last.op \in {"log_request", "log_response"}
        /\ last.kw.request_id = None
        /\ Get(Bindings(last.lg), "request_id", None) # None)
    => "request_id" \in DOMAIN Entry
          /\ Entry["request_id"] = Bindings(last.lg)["request_id"]

\* C29: while a function wrapped by with_span(span_context) runs in a thread,
\* get_logger() returns there a logger bound to the trace_id and span_id of the
\* span of the innermost wrapper; when the function has returned or raised,
\* get_logger() returns what it returned before the call, whatever the nesting;
\* where no wrapped call is running, get_logger() returns the root logger.
C29_SpanLoggerIsCurrent ==
    \A t \in Threads :
        /\ spans[t] = <<>> => GetLogger(current_logger[t]) = Root
        /\ spans[t] # <<>>
              => LET span_context == spans[t][Len(spans[t])].span_context
                     bound == Bindings(GetLogger(current_logger[t]))
                 IN \A key \in {"trace_id", "span_id"} :
                       IF key \in DOMAIN span_context
                       THEN key \in DOMAIN bound /\ bound[key] = span_context[key]
                       ELSE key \notin DOMAIN bound
        /\ exited[t] # NoExit => exited[t].after = exited[t].before

\* A function called inside another wrapped function has raised: get_logger()
\* returns the logger of the outer span again, while another thread that is in
\* no wrapped call gets the root logger
C29_Witness ==
    \E t, u \in Threads :
        /\ exited[t] # NoExit /\ exited[t].how = "raise"
        /\ spans[t] # <<>>
        /\ exited[t].after # Root /\ exited[t].after = GetLogger(current_logger[t])
        /\ spans[u] = <<>> /\ GetLogger(current_logger[u]) = Root

\* C30: a call log(level, ...) whose level, lower-cased, is no name of the table
\* of levels is dropped whatever the threshold of the logger, that of debug
\* included: it writes nothing, leaves the event id counter as it was and does
\* not raise.
C30_UnknownLevelDropped ==
    (last.op = "log" /\ Lower(last.level) \notin DOMAIN LEVEL_WEIGHTS)
    => /\ ~last.raised /\ ~last.emitted
       /\ lastLine = NoLine
       /\ nLines = last.lines_before
       /\ event_id_counter = last.counter_before

\* log("trace", ...) was dropped by a logger whose threshold is that of debug,
\* after a line had been written and an id consumed
C30_Witness ==
    /\ last.op = "log" /\ last.level = "trace"
    /\ loggers[last.lg].level_threshold = LEVEL_WEIGHTS["debug"]
    /\ ~last.emitted /\ ~last.raised
    /\ nLines > 0 /\ event_id_counter = last.counter_before /\ event_id_counter > 0

====
